---- MODULE Spec2Model ----
(***************************************************************************)
(* Model of intake_fivethirtyeight.py: get_projects, Five38Catalog         *)
(* (search, _load, reload-on-access, walk) and Five38SubCatalog._load.     *)
(*                                                                         *)
(* Python strings are sequences of one-character strings; the fixed hosts  *)
(* and the repository identifier are single tokens of such a sequence.     *)
(***************************************************************************)
EXTENDS Integers, Sequences, FiniteSets, TLC

VARIABLES
    gittree,        \* the snapshot handed to get_projects / served by the upstream API
    pc,             \* position of the caller of get_projects
    search_string,  \* get_projects: its search_string argument
    fail_at,        \* get_projects: which README request fails (0: none)
    result,         \* get_projects: what the call produced
    subcat,         \* a Five38SubCatalog instance
    cats,           \* the Five38Catalog instances, in order of construction
    now,            \* time.time()
    last,           \* the last call on a Five38Catalog and how it ended
    walk            \* a call of Five38Catalog.walk: the catalogs walked, its depth, its outcome

pvars == <<gittree, pc, search_string, fail_at, result>>
svars == <<subcat>>
cvars == <<cats, now, last>>
wvars == <<walk>>
vars == <<pvars, svars, cvars, wvars>>

---------------------------------------------------------------------------
(* Module constants, lines 8-10 *)
RAW_URL == <<"https://raw.githubusercontent.com">>
GH_URL == <<"https://www.github.com">>
REPO == <<"fivethirtyeight/data">>

(* Python's None *)
None == <<"<None>">>

---------------------------------------------------------------------------
(* str methods used by the program *)

\* s[i:] for a 0-based i
From(s, i) == SubSeq(s, i + 1, Len(s))

\* s.startswith(p)
StartsWith(s, p) == Len(p) <= Len(s) /\ SubSeq(s, 1, Len(p)) = p

\* s.endswith(p)
EndsWith(s, p) == Len(p) <= Len(s) /\ SubSeq(s, Len(s) - Len(p) + 1, Len(s)) = p

\* s.find(sub): lowest 0-based index where sub occurs, -1 when it does not
Find(s, sub) ==
    LET hits == {i \in 0..(Len(s) - Len(sub)) : SubSeq(s, i + 1, i + Len(sub)) = sub}
    IN IF hits = {} THEN -1 ELSE CHOOSE i \in hits : \A j \in hits : i <= j

UpperCase == <<"A","B","C","D","E","F","G","H","I","J","K","L","M","N","O","P","Q","R","S","T","U","V","W","X","Y","Z">>
LowerCase == <<"a","b","c","d","e","f","g","h","i","j","k","l","m","n","o","p","q","r","s","t","u","v","w","x","y","z">>

LowerChar(c) ==
    IF \E i \in 1..Len(UpperCase) : UpperCase[i] = c
    THEN LowerCase[CHOOSE i \in 1..Len(UpperCase) : UpperCase[i] = c]
    ELSE c

\* s.lower()
Lower(s) == [i \in 1..Len(s) |-> LowerChar(s[i])]

\* s.replace(old, new) for a non-empty old: every non-overlapping occurrence, left to right
RECURSIVE Replace(_, _, _)
Replace(s, old, new) ==
    LET i == Find(s, old)
    IN IF i < 0 THEN s
       ELSE SubSeq(s, 1, i) \o new \o Replace(From(s, i + Len(old)), old, new)

\* sep.join(parts)
RECURSIVE Join(_, _)
Join(sep, parts) ==
    IF parts = <<>> THEN <<>>
    ELSE IF Len(parts) = 1 THEN parts[1]
    ELSE parts[1] \o sep \o Join(sep, Tail(parts))

\* a list comprehension [x for x in xs if keep(x)] is SelectSeq(xs, keep)

Range(xs) == {xs[i] : i \in 1..Len(xs)}

---------------------------------------------------------------------------
(* Snapshots: {sha, tree: [{path, type}, ...]} *)

Slash == <<"/">>
Hyphen == <<"-">>
Underscore == <<"_">>
Dot == <<".">>
ReadmeSuffix == <<"r","e","a","d","m","e",".","m","d">>
CsvSuffix == <<".","c","s","v">>

Node(p, t) == [path |-> p, type |-> t]

Sha == <<"a","b","c","1","2","3">>

\* the nodes snapshots are drawn from
ProjectNodes ==
    { Node(<<"a">>, "tree"),
      Node(<<"a","-","b">>, "tree"),
      Node(<<"a","/","s">>, "tree"),
      Node(<<"R">>, "tree"),
      Node(<<"a","/","R","E","A","D","M","E",".","m","d">>, "blob"),
      Node(<<"a","-","b","/","r","e","a","d","m","e",".","m","d">>, "blob"),
      Node(<<"R","E","A","D","M","E",".","m","d">>, "blob"),
      Node(<<"a","/","x",".","c","s","v">>, "blob") }

\* the longest snapshot
MaxTree == 4

RECURSIVE DistinctSeqs(_, _)
DistinctSeqs(S, n) ==
    IF n = 0 THEN {<<>>}
    ELSE LET shorter == DistinctSeqs(S, n - 1)
         IN shorter \cup {Append(q, x) : q \in {r \in shorter : Len(r) = n - 1}, x \in S}

NoRepeat(q) == \A i, j \in 1..Len(q) : i # j => q[i].path # q[j].path

Trees(universe) == {q \in DistinctSeqs(universe, MaxTree) : NoRepeat(q)}

Keywords == {None, <<>>, <<"a">>, <<"A">>, <<"-","b">>, <<"a","-","b">>}

---------------------------------------------------------------------------
(* get_projects, lines 13-64, called with a gittree.  fail is the number   *)
(* of the project (1-based, in project_list order) whose README request    *)
(* answers with a non-success status; 0 when every request succeeds.       *)
(* A call makes at most one README request per project of project_list.    *)

\* line 38
IsProject(x) == x.type = "tree" /\ Find(x.path, Slash) < 0

\* a case-insensitive search
MatchesSearchAnyCase(x, k) == Find(Lower(x.path), Lower(k)) >= 0

\* line 41
MatchesSearch(x, k) == Find(x.path, k) >= 0

\* lines 38-41
project_list(k, tree) ==
    LET all == SelectSeq(tree, IsProject)
    IN IF k # None THEN SelectSeq(all, LAMBDA x : MatchesSearch(x, k)) ELSE all

\* line 49, the condition of the comprehension
IsReadmeOf(x, dataset) ==
    /\ x.type = "blob"
    /\ StartsWith(x.path, dataset.path)
    /\ EndsWith(Lower(x.path), ReadmeSuffix)

\* line 49
readme(tree, dataset) == SelectSeq(tree, LAMBDA x : IsReadmeOf(x, dataset))

\* line 51
readme_url(sha, p) == RAW_URL \o Slash \o REPO \o Slash \o sha \o Slash \o p

\* line 46
project_url(sha, p) == GH_URL \o Slash \o REPO \o <<"/","t","r","e","e","/">> \o sha \o Slash \o p

\* line 56: the text served at a URL
ResponseText(url) == [text_at |-> url]

\* lines 58-62
Record(sha, tree, dataset) ==
    [Name |-> dataset.path,
     Description |-> ResponseText(readme_url(sha, readme(tree, dataset)[1].path)),
     URL |-> project_url(sha, dataset.path)]

\* lines 43-64: the loop over project_list from its i-th element on
RECURSIVE ProjectLoop(_, _, _, _, _, _)
ProjectLoop(sha, tree, plist, i, fail, records) ==
    IF i > Len(plist) THEN [status |-> "ok", records |-> records]
    ELSE IF readme(tree, plist[i]) = <<>>
         THEN [status |-> "IndexError", records |-> <<>>]        \* readme[0], line 51
    ELSE IF fail = i
         THEN [status |-> "HTTPError", records |-> <<>>]         \* raise_for_status, line 53
    ELSE ProjectLoop(sha, tree, plist, i + 1, fail, Append(records, Record(sha, tree, plist[i])))

get_projects(k, gt, fail) ==
    ProjectLoop(gt.sha, gt.tree, project_list(k, gt.tree), 1, fail, <<>>)

Names(res) == {res.records[i].Name : i \in 1..Len(res.records)}

---------------------------------------------------------------------------
(* Specification of calls of get_projects on a given snapshot *)

NoResult == [status |-> "none", records |-> <<>>]

NoCall == [op |-> "none", cat |-> 0, arg |-> None, fail |-> 0, reloaded |-> FALSE, err |-> "none"]
NoWalk == [world |-> <<>>, depth |-> 0, status |-> "none", out |-> <<>>, inst |-> {}]
NoSub == [name |-> <<>>, tree |-> <<>>, entries |-> <<>>, status |-> "none"]

InitProjects ==
    /\ gittree \in {[sha |-> Sha, tree |-> t] : t \in Trees(ProjectNodes)}
    /\ pc = "idle"
    /\ search_string = None
    /\ fail_at = 0
    /\ result = NoResult
    /\ subcat = NoSub
    /\ cats = <<>> /\ now = 0 /\ last = NoCall
    /\ walk = NoWalk

CallGetProjects ==
    /\ pc = "idle"
    /\ \E k \in Keywords : \E fail \in 0..Len(project_list(k, gittree.tree)) :
          /\ search_string' = k
          /\ fail_at' = fail
          /\ result' = get_projects(k, gittree, fail)
    /\ pc' = "returned"
    /\ UNCHANGED <<gittree, svars, cvars, wvars>>

NextProjects == CallGetProjects

SpecProjects == InitProjects /\ [][NextProjects]_vars

---------------------------------------------------------------------------
(* Five38SubCatalog, lines 157-206 *)

\* the default tree = {} of __init__, line 161
NoTree == [sha |-> None, tree |-> <<>>]

\* the three discovery requests, lines 173-188 (also 19-34 and 93-108):
\* request number fail (1..3) answers with a non-success status, 0: none does
Discovery(upstream, fail) ==
    IF fail \in 1..3 THEN [status |-> "HTTPError", tree |-> NoTree]
    ELSE [status |-> "ok", tree |-> upstream]

\* line 194, the condition of the comprehension
IsCsvOf(x, name) ==
    /\ x.type = "blob"
    /\ StartsWith(x.path, name \o Slash)
    /\ EndsWith(Lower(x.path), CsvSuffix)

\* line 194
output_list(tree, name) == SelectSeq(tree, LAMBDA x : IsCsvOf(x, name))

\* a name that keeps the hyphens of the path
dataset_name_raw(p, name) == Replace(p, name \o Slash, <<>>)

\* line 197
dataset_name(p, name) == Replace(Replace(p, name \o Slash, <<>>), Hyphen, Underscore)

\* line 204
urlpath(sha, p) == RAW_URL \o Slash \o REPO \o Slash \o sha \o Slash \o p

\* lines 198-206
LocalCatalogEntry(sha, p, name) ==
    [name |-> dataset_name(p, name),
     description |-> <<"data file for ">> \o name,
     driver |-> "csv",
     urlpath |-> urlpath(sha, p)]

\* d[k] = v on a dict
Put(d, k, v) == [x \in (DOMAIN d) \cup {k} |-> IF x = k THEN v ELSE d[x]]

\* lines 196-206: the loop over output_list from its i-th element on
RECURSIVE CsvLoop(_, _, _, _, _)
CsvLoop(sha, name, csvs, i, entries) ==
    IF i > Len(csvs) THEN entries
    ELSE CsvLoop(sha, name, csvs, i + 1,
                 Put(entries, dataset_name(csvs[i].path, name), LocalCatalogEntry(sha, csvs[i].path, name)))

\* Five38SubCatalog._load, lines 168-206
SubCatalogLoad(c, upstream, fail) ==
    LET got == IF c.tree = NoTree THEN Discovery(upstream, fail)
               ELSE [status |-> "ok", tree |-> c.tree]
    IN IF got.status # "ok"
       THEN [c EXCEPT !.entries = <<>>, !.status = got.status]
       ELSE [c EXCEPT !.tree = got.tree,
                      !.entries = CsvLoop(got.tree.sha, c.name, output_list(got.tree.tree, c.name), 1, <<>>),
                      !.status = "loaded"]

CsvNodes ==
    { Node(<<"a","/","d","a","t","a","-","s","e","t",".","c","s","v">>, "blob"),
      Node(<<"a","/","d","a","t","a","_","s","e","t",".","c","s","v">>, "blob"),
      Node(<<"a","/","D",".","C","S","V">>, "blob"),
      Node(<<"a","-","b","/","d","a","t","a","-","s","e","t",".","c","s","v">>, "blob"),
      Node(<<"a","/","R","E","A","D","M","E",".","m","d">>, "blob"),
      Node(<<"a","/","x",".","c","s","v">>, "tree"),
      Node(<<"a","/","s","/","D",".","c","s","v">>, "blob") }

SubNames == {<<"a">>, <<"a","-","b">>}

InitSub ==
    /\ gittree \in {[sha |-> Sha, tree |-> t] : t \in Trees(CsvNodes)}
    /\ pc = "idle"
    /\ search_string = None
    /\ fail_at = 0
    /\ result = NoResult
    /\ subcat = NoSub
    /\ cats = <<>> /\ now = 0 /\ last = NoCall
    /\ walk = NoWalk

\* Five38SubCatalog(tree=..., name=...), lines 161-163
ConstructSub ==
    /\ subcat.status = "none"
    /\ \E n \in SubNames, t \in {gittree, NoTree} :
          subcat' = [name |-> n, tree |-> t, entries |-> <<>>, status |-> "new"]
    /\ UNCHANGED <<pvars, cvars, wvars>>

\* the first load of the instance
LoadSub ==
    /\ subcat.status = "new"
    /\ \E fail \in 0..3 : subcat' = SubCatalogLoad(subcat, gittree, fail)
    /\ UNCHANGED <<pvars, cvars, wvars>>

NextSub == ConstructSub \/ LoadSub

SpecSub == InitSub /\ [][NextSub]_vars

---------------------------------------------------------------------------
(* Claims about Five38SubCatalog *)

\* the files of project p: blobs under "p/" whose name ends in .csv in any case
Qualifying(tree, p) ==
    {x \in Range(tree) : /\ x.type = "blob"
                         /\ StartsWith(x.path, p \o Slash)
                         /\ EndsWith(Lower(x.path), CsvSuffix)}

DataSetCsv == <<"d","a","t","a","-","s","e","t",".","c","s","v">>

OnlyDataSet ==
    /\ subcat.status = "loaded"
    /\ Qualifying(subcat.tree.tree, subcat.name) = {Node(subcat.name \o Slash \o DataSetCsv, "blob")}

\* C2 as stated: the single entry is named data_set
C2_NamedDataSet ==
    OnlyDataSet
    => /\ DOMAIN subcat.entries = {<<"d","a","t","a","_","s","e","t">>}
       /\ \A k \in DOMAIN subcat.entries :
             subcat.entries[k].urlpath
                = RAW_URL \o Slash \o REPO \o Slash \o subcat.tree.sha \o Slash \o subcat.name \o Slash \o DataSetCsv

\* C2, amended: a sub-catalog for P loaded from a snapshot whose only
\* qualifying file is P/data-set.csv has exactly one entry, named
\* data_set.csv (prefix stripped, hyphens replaced, extension kept), whose
\* urlpath is <raw-host>/<repo>/<sha>/P/data-set.csv.
C2_NamedDataSetCsv ==
    OnlyDataSet
    => /\ DOMAIN subcat.entries = {<<"d","a","t","a","_","s","e","t",".","c","s","v">>}
       /\ \A k \in DOMAIN subcat.entries :
             /\ subcat.entries[k].name = k
             /\ subcat.entries[k].urlpath
                  = RAW_URL \o Slash \o REPO \o Slash \o subcat.tree.sha \o Slash \o subcat.name \o Slash \o DataSetCsv

\* the case of C2 for the hyphenated project, in a snapshot that holds other nodes too
C2_Witness ==
    /\ OnlyDataSet
    /\ subcat.name = <<"a","-","b">>
    /\ Len(subcat.tree.tree) > 1
    /\ Cardinality(DOMAIN subcat.entries) = 1

\* C10: a loaded sub-catalog holds exactly one entry per qualifying file.
C10_OneEntryPerFile ==
    subcat.status = "loaded"
    => Cardinality(DOMAIN subcat.entries) = Cardinality(Qualifying(subcat.tree.tree, subcat.name))

---------------------------------------------------------------------------
(* Claims about get_projects *)

\* k occurs in s, compared character by character
Contains(s, k) == \E i \in 1..(Len(s) - Len(k) + 1) : \A j \in 1..Len(k) : s[i + j - 1] = k[j]

\* the top-level directories of a snapshot
TopLevelDirs(tree) ==
    {tree[i].path : i \in {j \in 1..Len(tree) : tree[j].type = "tree" /\ \A c \in 1..Len(tree[j].path) : tree[j].path[c] # "/"}}

\* C1: a call with a non-empty keyword k that returns yields only names that
\* contain k case-sensitively, each a top-level directory of the snapshot, and
\* a subset of the names an unfiltered call on the same snapshot returns.
C1_KeywordFilters ==
    (pc = "returned" /\ result.status = "ok" /\ search_string # None /\ search_string # <<>>)
    => /\ \A n \in Names(result) : Contains(n, search_string)
       /\ Names(result) \subseteq TopLevelDirs(gittree.tree)
       /\ \A f \in 0..Len(project_list(None, gittree.tree)) :
             LET all == get_projects(None, gittree, f)
             IN all.status = "ok" => Names(result) \subseteq Names(all)

\* a filtered call that returns a proper, non-empty part of what the unfiltered call returns
C1_Witness ==
    /\ pc = "returned" /\ result.status = "ok"
    /\ search_string = <<"-","b">>
    /\ Names(result) = {<<"a","-","b">>}
    /\ get_projects(None, gittree, 0).status = "ok"
    /\ Names(get_projects(None, gittree, 0)) = {<<"a">>, <<"a","-","b">>}

\* the first candidate project has no README blob under the code's own test
FirstCandidateLacksReadme ==
    LET plist == project_list(search_string, gittree.tree)
    IN plist # <<>> /\ readme(gittree.tree, plist[1]) = <<>>

\* C6: a candidate project without a README makes get_projects fail with the
\* explicit DocumentationMissing condition, not with an index fault.
C6_DocumentationMissing ==
    (pc = "returned" /\ FirstCandidateLacksReadme) => result.status = "DocumentationMissing"

\* the blobs under the directory p that are READMEs, in snapshot order
ReadmesUnder(tree, p) ==
    SelectSeq(tree, LAMBDA x : /\ x.type = "blob"
                               /\ StartsWith(x.path, p \o Slash)
                               /\ EndsWith(Lower(x.path), ReadmeSuffix))

\* C9: every returned project is described by the first README blob, in
\* snapshot order, that lies under the project's own directory.
C9_ReadmeOfOwnDirectory ==
    (pc = "returned" /\ result.status = "ok")
    => \A i \in 1..Len(result.records) :
          LET r == result.records[i]
              own == ReadmesUnder(gittree.tree, r.Name)
          IN /\ own # <<>>
             /\ r.Description = ResponseText(readme_url(gittree.sha, own[1].path))

---------------------------------------------------------------------------
(* Five38Catalog, lines 66-123.  The base class Catalog and the decorator  *)
(* reload_on_change come from the intake framework: an instance keeps the  *)
(* time of its last load (updated) and a time-to-live (ttl), and a         *)
(* decorated method first reloads the instance when it is stale.           *)

\* ttl of the sub-catalogs, line 121 (beyond TLC's 32-bit integers: kept as text)
SubTTL == "99999999999"

\* the ttl of an instance constructed without one, in the unit of now
DefaultTTL == 1

\* an instance that was never loaded
Never == -1

\* lines 117-122; tree is a reference to the snapshot, which its sha identifies
Five38SubCatalog(tree, rec) ==
    [name |-> rec.Name, description |-> rec.Description, tree |-> tree.sha, ttl |-> SubTTL]

\* lines 114-123: the loop over the records from the i-th on
RECURSIVE EntriesLoop(_, _, _, _)
EntriesLoop(tree, records, i, entries) ==
    IF i > Len(records) THEN entries
    ELSE EntriesLoop(tree, records, i + 1,
                     Put(entries, Replace(records[i].Name, Hyphen, Underscore),
                         Five38SubCatalog(tree, records[i])))

\* the README request of get_projects that request number fail of a load is
ReadmeFail(fail) == IF fail > 3 THEN fail - 3 ELSE 0

\* a load that registers each sub-catalog as soon as its README is fetched
Five38LoadPartial(query, upstream, fail) ==
    LET d == Discovery(upstream, fail)
        projects == get_projects(query, d.tree, ReadmeFail(fail))
        fetched == get_projects(query, d.tree, 0)
    IN IF d.status # "ok" THEN [status |-> d.status, entries |-> <<>>]
       ELSE IF projects.status = "HTTPError" /\ fetched.status = "ok"
            THEN [status |-> projects.status,
                  entries |-> EntriesLoop(d.tree, SubSeq(fetched.records, 1, ReadmeFail(fail) - 1), 1, <<>>)]
       ELSE IF projects.status # "ok" THEN [status |-> projects.status, entries |-> <<>>]
       ELSE [status |-> "ok", entries |-> EntriesLoop(d.tree, projects.records, 1, <<>>)]

\* Five38Catalog._load, lines 89-123: the status it ends with and self._entries after it
Five38Load(query, upstream, fail) ==
    LET d == Discovery(upstream, fail)
        projects == get_projects(query, d.tree, ReadmeFail(fail))
    IN IF d.status # "ok" THEN [status |-> d.status, entries |-> <<>>]
       ELSE IF projects.status # "ok" THEN [status |-> projects.status, entries |-> <<>>]
       ELSE [status |-> "ok", entries |-> EntriesLoop(d.tree, projects.records, 1, <<>>)]

\* Five38Catalog(query, ttl=...), lines 69-71
Five38Catalog(query, ttl) ==
    [search_string |-> query, entries |-> <<>>, ttl |-> ttl, updated |-> Never, loads |-> 0]

\* Catalog.reload's test: never loaded, or loaded longer ago than ttl
Stale(c, t) == c.updated = Never \/ t - c.updated > c.ttl

\* the requests a load of c can make: three discovery calls and one per candidate project
Requests(c, upstream) == 0..(3 + Len(project_list(c.search_string, upstream.tree)))

\* Catalog.force_reload: stamp the time, then run _load
ForceReload(c, t, upstream, fail) ==
    LET r == Five38Load(c.search_string, upstream, fail)
    IN [c EXCEPT !.updated = t, !.entries = r.entries, !.loads = c.loads + 1]

\* the snapshots the upstream API serves
CatalogTrees ==
    { <<Node(<<"a">>, "tree"),
        Node(<<"a","/","R","E","A","D","M","E",".","m","d">>, "blob"),
        Node(<<"a","/","x",".","c","s","v">>, "blob")>>,
      <<Node(<<"a">>, "tree"),
        Node(<<"a","/","R","E","A","D","M","E",".","m","d">>, "blob"),
        Node(<<"a","/","x",".","c","s","v">>, "blob")>>,
      <<Node(<<"a">>, "tree"),
        Node(<<"a","/","R","E","A","D","M","E",".","m","d">>, "blob"),
        Node(<<"a","-","b">>, "tree"),
        Node(<<"a","-","b","/","r","e","a","d","m","e",".","m","d">>, "blob")>>,
      <<Node(<<"a">>, "tree"),
        Node(<<"a","/","R","E","A","D","M","E",".","m","d">>, "blob"),
        Node(<<"z">>, "tree")>> }

Queries == {<<>>, <<"-","b">>}
EntryNames == {<<"a">>}

MaxCats == 2
MaxTime == 2

\* the ttl keyword arguments instances are constructed with
TTLs == {0, DefaultTTL}

Init ==
    /\ gittree \in {[sha |-> Sha, tree |-> t] : t \in CatalogTrees}
    /\ pc = "idle"
    /\ search_string = None
    /\ fail_at = 0
    /\ result = NoResult
    /\ subcat = NoSub
    /\ \E q \in Queries, ttl \in TTLs : cats = <<Five38Catalog(q, ttl)>>
    /\ now = 0
    /\ last = NoCall
    /\ walk = NoWalk

\* Five38Catalog.search, lines 73-74, re-scoping the receiver instead
SearchInPlace(i, text) ==
    /\ cats' = [cats EXCEPT ![i].search_string = text]
    /\ last' = [op |-> "search", cat |-> i, arg |-> text, fail |-> 0, reloaded |-> FALSE, err |-> "none"]
    /\ UNCHANGED <<pvars, svars, wvars, now>>

\* Five38Catalog.search, lines 73-74
Search(i, text) ==
    /\ cats' = Append(cats, Five38Catalog(text, DefaultTTL))
    /\ last' = [op |-> "search", cat |-> i, arg |-> text, fail |-> 0, reloaded |-> FALSE, err |-> "none"]
    /\ UNCHANGED <<pvars, svars, wvars, now>>

\* _get_entry, lines 77-87, reloading on every call
GetEntryAlwaysReloads(i, name) ==
    \E fail \in Requests(cats[i], gittree) :
       LET r == Five38Load(cats[i].search_string, gittree, fail)
           c == ForceReload(cats[i], now, gittree, fail)
       IN /\ cats' = [cats EXCEPT ![i] = c]
          /\ last' = [op |-> "get_entry", cat |-> i, arg |-> None, fail |-> fail, reloaded |-> TRUE,
                      err |-> IF r.status # "ok" THEN r.status
                              ELSE IF name \notin DOMAIN c.entries THEN "KeyError" ELSE "none"]
          /\ UNCHANGED <<pvars, svars, wvars, now>>

\* _get_entry, lines 77-87: reload when stale, then look the name up
GetEntry(i, name) ==
    IF Stale(cats[i], now)
    THEN \E fail \in Requests(cats[i], gittree) :
            LET r == Five38Load(cats[i].search_string, gittree, fail)
                c == ForceReload(cats[i], now, gittree, fail)
            IN /\ cats' = [cats EXCEPT ![i] = c]
               /\ last' = [op |-> "get_entry", cat |-> i, arg |-> None, fail |-> fail, reloaded |-> TRUE,
                           err |-> IF r.status # "ok" THEN r.status
                                   ELSE IF name \notin DOMAIN c.entries THEN "KeyError" ELSE "none"]
               /\ UNCHANGED <<pvars, svars, wvars, now>>
    ELSE /\ last' = [op |-> "get_entry", cat |-> i, arg |-> None, fail |-> 0, reloaded |-> FALSE,
                     err |-> IF name \notin DOMAIN cats[i].entries THEN "KeyError" ELSE "none"]
         /\ UNCHANGED <<pvars, svars, wvars, now, cats>>

DoSearch == \E i \in 1..Len(cats), text \in Queries \cup {None} : Len(cats) < MaxCats /\ Search(i, text)

DoGetEntry == \E i \in 1..Len(cats), name \in EntryNames : GetEntry(i, name)

\* time passes
Tick ==
    /\ now < MaxTime
    /\ now' = now + 1
    /\ last' = [NoCall EXCEPT !.op = "tick"]
    /\ UNCHANGED <<pvars, svars, wvars, cats>>

\* one instance, accessed as time passes
Next == DoGetEntry \/ Tick

Spec == Init /\ [][Next]_vars

\* instances searched and accessed
NextSearch == DoSearch \/ DoGetEntry

SpecSearch == Init /\ [][NextSearch]_vars

---------------------------------------------------------------------------
(* Claims about Five38Catalog *)

\* C5 as stated: without an explicit invalidation an instance is loaded at most once
C5_LoadedAtMostOnce == \A i \in 1..Len(cats) : cats[i].loads <= 1

\* C5, amended: an entry access made on a loaded instance no later than ttl
\* after its last load runs no load: the instance's load count and its
\* entry mapping are unchanged, the access is served from the cached mapping.
C5_NoLoadWithinTTL ==
    [][\A i \in 1..Len(cats) :
          (last'.op = "get_entry" /\ last'.cat = i
             /\ cats[i].updated # Never /\ now - cats[i].updated <= cats[i].ttl)
          => (cats'[i].loads = cats[i].loads /\ cats'[i].entries = cats[i].entries)]_vars

\* a second access, later than the load but within ttl, found the entry in the cached mapping
C5_Witness ==
    /\ last.op = "get_entry" /\ ~last.reloaded /\ last.err = "none"
    /\ cats[last.cat].loads = 1
    /\ now > cats[last.cat].updated

\* C7: search(k) appends a new instance whose keyword is k, not yet loaded,
\* and changes no existing instance (the receiver among them).
C7_SearchLeavesReceiver ==
    [][(last'.op = "search" /\ cats' # cats)
          => /\ Len(cats') = Len(cats) + 1
             /\ SubSeq(cats', 1, Len(cats)) = cats
             /\ cats'[Len(cats')].search_string = last'.arg
             /\ cats'[Len(cats')].entries = <<>>]_vars

\* a search on a loaded receiver for a keyword other than its own
C7_Witness ==
    /\ last.op = "search" /\ Len(cats) = 2
    /\ cats[last.cat].entries # <<>>
    /\ cats[2].search_string = last.arg
    /\ cats[2].search_string # cats[last.cat].search_string

\* C8: a load in which a discovery request or a README request fails ends
\* with HTTPError at the caller of the access and leaves the entry mapping empty.
C8_FailedLoadLeavesNothing ==
    (last.op = "get_entry" /\ last.reloaded)
    => LET c == cats[last.cat]
           plist == project_list(c.search_string, gittree.tree)
           k == last.fail - 3
       IN /\ last.fail \in 1..3 => (last.err = "HTTPError" /\ c.entries = <<>>)
          /\ (k >= 1 /\ \A j \in 1..k : readme(gittree.tree, plist[j]) # <<>>)
                => (last.err = "HTTPError" /\ c.entries = <<>>)
          /\ last.err \in {"HTTPError", "IndexError"} => c.entries = <<>>

\* the README request of the second project failed, after the first one's succeeded
C8_Witness ==
    /\ last.op = "get_entry" /\ last.reloaded
    /\ last.fail = 5 /\ last.err = "HTTPError"
    /\ cats[last.cat].entries = <<>>

---------------------------------------------------------------------------
(* Five38Catalog.walk, lines 126-155, over nested catalogs.  Object 0 is   *)
(* the catalog walk is called on; objects 1..MaxObjs are its entries and   *)
(* theirs.  A nested catalog is walked by the same procedure.              *)

MaxObjs == 4
MaxDepth == 3

ObjNames == << <<"a">>, <<"b">>, <<"a",".","b">>, <<"c">>, <<"d">>, <<"e">>, <<"f">> >>

\* the entries of catalog c, in the order of its _entries
Entries(w, c) ==
    LET kids == {i \in 1..MaxObjs : w.parent[i] = c}
        Sorted[S \in SUBSET kids] ==
            IF S = {} THEN <<>>
            ELSE LET m == CHOOSE x \in S : \A y \in S : x <= y
                 IN <<m>> \o Sorted[S \ {m}]
    IN IF kids = {} /\ c = w.extra /\ w.loops THEN <<1>> ELSE Sorted[kids]

\* item.container
Container(w, i) ==
    IF (\E j \in 1..MaxObjs : w.parent[j] = i) \/ i = w.extra THEN "catalog" ELSE "dataframe"

\* the nestings walked: a forest under object 0, at most one catalog without
\* entries of its own (extra), which may instead hold a link back to object 1
\* (loops), and at most one object whose instantiation or reload raises
\* (raiser; 0: the reload of the walked catalog itself, -1: none)
Worlds ==
    {w \in [parent : {f \in [1..MaxObjs -> 0..(MaxObjs - 1)] : \A i \in 1..MaxObjs : f[i] < i},
            extra : 0..MaxObjs, loops : BOOLEAN, raiser : -1..MaxObjs] :
        /\ \A j \in 1..MaxObjs : w.parent[j] # w.extra
        /\ w.loops => w.extra > 1}

\* a descent one level too deep
DescendsAtLastLevel(w, item, depth) == Container(w, item) = "catalog" /\ depth > 0

\* line 146
Descends(w, item, depth) == Container(w, item) = "catalog" /\ depth > 1

\* a walk without the try of line 148: the exception leaves walk
DescentErrorPropagates(st) == [st EXCEPT !.status = "raised"]

\* lines 150-152: the exception of a descent is printed and dropped
DescentError(st) == st

\* lines 145-154: the loop over the entries from the i-th on; prefix holds the
\* names of the levels visited, path the objects themselves
RECURSIVE WalkLoop(_, _, _, _, _, _, _)
WalkLoop(w, items, i, st, prefix, path, depth) ==
    IF i > Len(items) \/ st.status = "raised" THEN st
    ELSE LET item == items[i]
             name == ObjNames[item]
             called == [st EXCEPT !.inst = @ \cup {Append(path, item)}]
             st1 == IF ~Descends(w, item, depth) THEN st
                    ELSE IF w.raiser = item THEN DescentError(called)
                    ELSE WalkLoop(w, Entries(w, item), 1, called, Append(prefix, name), Append(path, item), depth - 1)
             st2 == IF st1.status = "raised" THEN st1
                    ELSE [st1 EXCEPT !.out = Put(@, Join(Dot, Append(prefix, name)), item)]
         IN WalkLoop(w, items, i + 1, st2, prefix, path, depth)

\* walk(depth=d) on object 0, lines 126-155: the reload of the decorator, then the loop
Walk(w, d) ==
    LET st == [world |-> w, depth |-> d, status |-> "running", out |-> <<>>, inst |-> {}]
    IN IF w.raiser = 0 THEN [st EXCEPT !.status = "raised"]
       ELSE LET done == WalkLoop(w, Entries(w, 0), 1, st, <<>>, <<>>, d)
            IN IF done.status = "raised" THEN done ELSE [done EXCEPT !.status = "returned"]

InitWalk ==
    /\ gittree = [sha |-> Sha, tree |-> <<>>]
    /\ pc = "idle"
    /\ search_string = None
    /\ fail_at = 0
    /\ result = NoResult
    /\ subcat = NoSub
    /\ cats = <<>> /\ now = 0 /\ last = NoCall
    /\ \E w \in Worlds, d \in 1..MaxDepth :
          walk = [world |-> w, depth |-> d, status |-> "idle", out |-> <<>>, inst |-> {}]

CallWalk ==
    /\ walk.status = "idle"
    /\ walk' = Walk(walk.world, walk.depth)
    /\ UNCHANGED <<pvars, svars, cvars>>

NextWalk == CallWalk

SpecWalk == InitWalk /\ [][NextWalk]_vars

---------------------------------------------------------------------------
(* Claims about walk *)

Front(p) == SubSeq(p, 1, Len(p) - 1)

\* the chains of entries of n objects that start in the walked catalog
RECURSIVE PathsOfLen(_, _)
PathsOfLen(w, n) ==
    IF n = 1 THEN {<<i>> : i \in Range(Entries(w, 0))}
    ELSE {Append(p, j) : p \in PathsOfLen(w, n - 1), j \in 1..MaxObjs} \cap
         {q \in [1..n -> 1..MaxObjs] : q[n] \in Range(Entries(w, q[n - 1]))}

PathsUpTo(w, d) == UNION {PathsOfLen(w, n) : n \in 1..d}

\* the dotted name of a chain of entries
Key(p) == Join(Dot, [i \in 1..Len(p) |-> ObjNames[p[i]]])

\* C3: walk(depth=d) returns only keys made of at most d entry names, and
\* instantiates only entries at the levels above d.
C3_DepthBound ==
    walk.status = "returned"
    => /\ DOMAIN walk.out \subseteq {Key(p) : p \in PathsUpTo(walk.world, walk.depth)}
       /\ \A p \in walk.inst : Len(p) <= walk.depth - 1

\* depth 2 on a nesting three levels deep: the catalog at level 2 is recorded and left closed
C3_Witness ==
    /\ walk.status = "returned" /\ walk.depth = 2
    /\ walk.inst # {}
    /\ \E p \in PathsOfLen(walk.world, 3) :
          /\ walk.world.raiser \notin Range(p)
          /\ Key(Front(p)) \in DOMAIN walk.out
          /\ Key(p) \notin DOMAIN walk.out

\* the descents that raised
Failed(wk) == {p \in wk.inst : wk.world.raiser = p[Len(p)]}

\* C4: when the descent into a nested entry raises, walk still returns, and
\* the mapping holds the failing entry and every entry that is reached
\* without passing through it: its siblings and what lies under them.
C4_DescentFailureSuppressed ==
    (walk.status \in {"returned", "raised"} /\ Failed(walk) # {})
    => /\ walk.status = "returned"
       /\ \A p \in PathsUpTo(walk.world, walk.depth) :
             walk.world.raiser \notin Range(Front(p)) => Key(p) \in DOMAIN walk.out

\* a failing catalog with entries of its own beside a sibling catalog that was expanded
C4_Witness ==
    /\ walk.status = "returned"
    /\ \E p \in Failed(walk), q \in walk.inst :
          /\ Front(q) = Front(p) /\ q # p
          /\ Entries(walk.world, p[Len(p)]) # <<>>
          /\ \E j \in Range(Entries(walk.world, q[Len(q)])) : Key(Append(q, j)) \in DOMAIN walk.out

====
